---- MODULE Spec2Model ----
(***************************************************************************)
(* Model of the phone verification ledger of backend/app/api/verification.py *)
(* (send_verification_code, verify_code, check_verification_status,        *)
(* reset_verification).  Strings are sequences of one-character strings,   *)
(* time is an integer number of minutes.                                   *)
(***************************************************************************)
EXTENDS Integers, Sequences, FiniteSets, TLC

\* ------------------------------------------------------------------ bounds
MaxTime == 6        \* the clock stops advancing at this minute
NumCodes == 2       \* the generator draws among the first NumCodes codes

\* ------------------------------------------------------- program constants
CodeLen == 6        \* random.choices(string.digits, k=6)
TTL == 5            \* timedelta(minutes=5)
MaxAttempts == 3    \* stored_data["attempts"] >= 3

\* ---------------------------------------------------------------- strings
Whitespace == {" ", "\t", "\n", "\r"}

RECURSIVE lstrip(_)
lstrip(s) == IF s # <<>> /\ Head(s) \in Whitespace THEN lstrip(Tail(s)) ELSE s

RECURSIVE rstrip(_)
rstrip(s) ==
    IF s # <<>> /\ s[Len(s)] \in Whitespace
    THEN rstrip(SubSeq(s, 1, Len(s) - 1))
    ELSE s

\* str.strip()
strip(s) == rstrip(lstrip(s))

\* str.startswith(c) for a one-character prefix
startswith(s, c) == s # <<>> /\ Head(s) = c

digits == <<"0", "1", "2", "3", "4", "5", "6", "7", "8", "9">>

RECURSIVE Pow10(_)
Pow10(n) == IF n = 0 THEN 1 ELSE 10 * Pow10(n - 1)

\* the n-th string of CodeLen decimal digits
CodeOf(n) == [i \in 1..CodeLen |-> digits[((n \div Pow10(CodeLen - i)) % 10) + 1]]

\* the values generate_verification_code() can return (bounded by NumCodes)
generate_verification_code == {CodeOf(n) : n \in 0..(NumCodes - 1)}

\* ----------------------------------------------------------------- inputs
\* request phone numbers: plain, padded with whitespace, without the '+'
PhoneInputs ==
    { <<"+", "1">>, <<" ", "+", "1", " ">>, <<"1", "2">> }

\* request codes: the generated ones and one padded with whitespace
CodeInputs ==
    generate_verification_code \cup { <<" ">> \o CodeOf(0) \o <<" ">> }

\* request phone numbers of the two-number specification
PairInputs == { <<"+", "1">>, <<"+", "2">> }

Keys == {strip(p) : p \in PhoneInputs \cup PairInputs}

None == <<"none">>

\* ------------------------------------------------------------------ state
VARIABLES
    verification_codes,   \* dict: stripped phone number -> entry
    verified_numbers,     \* set of phone numbers
    now,                  \* datetime.utcnow(), in minutes
    resp,                 \* the last request, what it found and its response
    mismatches,           \* per number: wrong-code calls compared against the current entry
    lastTwo,              \* per number: <<c1, c2>> once two codes were issued in succession
    usedCode,             \* per number: code of the latest successful verification
    call_sessions,        \* dict: call id -> session dict
    pending,              \* dict: call id -> the initiate_outbound_call request suspended at an await
    cresp,                \* the last response of the voice API, and what the request met
    consent_records       \* ConsentManager: the numbers with a recorded refusal of outbound calls

vars == <<verification_codes, verified_numbers, now, resp, mismatches, lastTwo, usedCode,
          call_sessions, pending, cresp, consent_records>>

\* the state of voice.py
callVars == <<call_sessions, pending, cresp, consent_records>>

\* the state of verification.py
ledgerVars == <<verification_codes, verified_numbers, resp, mismatches, lastTwo, usedCode>>

\* what a request found in the ledger: << >> for no entry, else the entry's
\* attempts, whether the request came before, at or after the entry's
\* expires_at, and whether the request's code equals the entry's
Found(d, k, code, t) ==
    IF k \in DOMAIN d
    THEN << [attempts |-> d[k].attempts,
             when |-> IF t < d[k].expires_at THEN "before"
                      ELSE IF t = d[k].expires_at THEN "at" ELSE "after",
             correct |-> (code = d[k].code)] >>
    ELSE << >>

Response(op, phone, code, status, kind, remaining, delivery, found) ==
    [op |-> op, phone |-> phone, code |-> code, status |-> status,
     kind |-> kind, remaining |-> remaining, delivery |-> delivery, found |-> found]

Init ==
    /\ verification_codes = << >>
    /\ verified_numbers = {}
    /\ now = 0
    /\ resp = Response("none", None, None, 0, "none", << >>, "none", << >>)
    /\ mismatches = [k \in Keys |-> 0]
    /\ lastTwo = [k \in Keys |-> << >>]
    /\ usedCode = [k \in Keys |-> None]
    /\ call_sessions = << >>
    /\ pending = << >>
    /\ cresp = [op |-> "none", call_id |-> 0, status |-> 0, kind |-> "none",
                body |-> << >>, env |-> << >>]
    /\ consent_records = {}

\* dict.setdefault instead of assignment: an existing entry is kept
DictSet_KeepExisting(d, k, v) ==
    IF k \in DOMAIN d THEN d ELSE [x \in (DOMAIN d) \cup {k} |-> IF x = k THEN v ELSE d[x]]

\* verification_codes[k] = v
DictSet(d, k, v) == [x \in (DOMAIN d) \cup {k} |-> IF x = k THEN v ELSE d[x]]

\* dict.clear() for the del statement
DictDel_Clear(d, k) == << >>

\* the del statement left out
DictDel_Noop(d, k) == d

\* del verification_codes[k]
DictDel(d, k) == [x \in (DOMAIN d) \ {k} |-> d[x]]

\* the expiry check left out
IsExpired_Never(entry, t) == FALSE

\* the expiry check placed after the attempts check
IsExpired_AfterAttempts(entry, t) == t > entry.expires_at /\ entry.attempts < MaxAttempts

\* the expiry check with >= for >
IsExpired_AtExpiry(entry, t) == t >= entry.expires_at

\* datetime.utcnow() > stored_data["expires_at"]
IsExpired(entry, t) == t > entry.expires_at

\* the attempts check with > for >=
IsExhausted_Strict(entry) == entry.attempts > MaxAttempts

\* stored_data["attempts"] >= 3
IsExhausted(entry) == entry.attempts >= MaxAttempts

\* a lost update: the increment applied to a stale read of a fresh entry
IncAttempts_Stale(entry) == [entry EXCEPT !.attempts = 1]

\* the increment left out
IncAttempts_Dropped(entry) == entry

\* stored_data["attempts"] += 1
IncAttempts(entry) == [entry EXCEPT !.attempts = @ + 1]

\* remaining computed from the attempts before the increment
Remaining_BeforeIncrement(entry) == MaxAttempts - entry.attempts + 1

\* remaining = 3 - stored_data["attempts"], read after the increment
Remaining(entry) == MaxAttempts - entry.attempts

\* the entry written without the timedelta
NewEntry_NoTTL(code, t) == [code |-> code, expires_at |-> t, attempts |-> 0]

\* the entry written by send_verification_code
NewEntry(code, t) == [code |-> code, expires_at |-> t + TTL, attempts |-> 0]

\* issuing a code also withdrawing the number's verification
VerifiedAfterSend_Discard(verified, phone_number) == verified \ {phone_number}

\* the verified set after send_verification_code: the handler never refers
\* to verified_numbers
VerifiedAfterSend(verified, phone_number) == verified

\* send_verification_code has one handler, "except Exception", for everything
\* raised in its body: the HTTPException(400) of the format check and the
\* failure of the SMS client alike leave as HTTPException(500)
SendCodeErrorStatus(raised) == 500

\* the except clause restoring the ledger when the SMS client fails
LedgerAfterSend_Rollback(before, stored, deliverOk) == IF deliverOk THEN stored ELSE before

\* the ledger after send_verification_code stored the entry and the SMS
\* client answered: the except clause does not touch verification_codes
LedgerAfterSend(before, stored, deliverOk) == stored

\* POST /send-code
send_verification_code(phone_in, code, deliverOk) ==
    LET phone_number == strip(phone_in) IN
    IF ~ startswith(phone_number, "+")
    THEN /\ resp' = Response("send_code", phone_in, None, SendCodeErrorStatus(400),
                             "InvalidPhoneFormat", << >>, "none", << >>)
         /\ UNCHANGED <<verification_codes, verified_numbers, now,
                        mismatches, lastTwo, usedCode, callVars>>
    ELSE LET stored == DictSet(verification_codes, phone_number, NewEntry(code, now)) IN
         /\ verification_codes' = LedgerAfterSend(verification_codes, stored, deliverOk)
         /\ mismatches' = [mismatches EXCEPT ![phone_number] = 0]
         /\ lastTwo' = [lastTwo EXCEPT ![phone_number] =
                IF resp.op = "send_code" /\ strip(resp.phone) = phone_number
                   /\ phone_number \in DOMAIN verification_codes
                THEN <<verification_codes[phone_number].code, code>> ELSE << >>]
         /\ usedCode' = [usedCode EXCEPT ![phone_number] = None]
         /\ resp' = IF deliverOk
                    THEN Response("send_code", phone_in, code, 200, "Success", << >>, "sent",
                                  Found(verification_codes, phone_number, code, now))
                    ELSE Response("send_code", phone_in, code, SendCodeErrorStatus(500),
                                  "DeliveryFailed", << >>, "failed",
                                  Found(verification_codes, phone_number, code, now))
         /\ verified_numbers' = VerifiedAfterSend(verified_numbers, phone_number)
         /\ UNCHANGED <<now, callVars>>

\* POST /verify-code
verify_code(phone_in, code_in) ==
    LET phone_number == strip(phone_in)
        code == strip(code_in)
        found == Found(verification_codes, phone_number, code, now)
    IN
    /\ UNCHANGED <<now, lastTwo, callVars>>
    /\ IF phone_number \notin DOMAIN verification_codes
       THEN /\ resp' = Response("verify_code", phone_in, code_in, 404,
                                "NotFound", << >>, "none", found)
            /\ UNCHANGED <<verification_codes, verified_numbers, mismatches, usedCode>>
       ELSE LET stored_data == verification_codes[phone_number] IN
            IF IsExpired(stored_data, now)
            THEN /\ verification_codes' = DictDel(verification_codes, phone_number)
                 /\ mismatches' = [mismatches EXCEPT ![phone_number] = 0]
                 /\ resp' = Response("verify_code", phone_in, code_in, 400,
                                     "Expired", << >>, "none", found)
                 /\ UNCHANGED <<verified_numbers, usedCode>>
            ELSE IF IsExhausted(stored_data)
            THEN /\ verification_codes' = DictDel(verification_codes, phone_number)
                 /\ mismatches' = [mismatches EXCEPT ![phone_number] = 0]
                 /\ resp' = Response("verify_code", phone_in, code_in, 400,
                                     "AttemptsExhausted", << >>, "none", found)
                 /\ UNCHANGED <<verified_numbers, usedCode>>
            ELSE IF code # stored_data.code
            THEN /\ verification_codes' =
                      DictSet(verification_codes, phone_number, IncAttempts(stored_data))
                 /\ mismatches' = [mismatches EXCEPT ![phone_number] = @ + 1]
                 /\ resp' = Response("verify_code", phone_in, code_in, 400, "CodeMismatch",
                                     << Remaining(IncAttempts(stored_data)) >>, "none", found)
                 /\ UNCHANGED <<verified_numbers, usedCode>>
            ELSE /\ verified_numbers' = verified_numbers \cup {phone_number}
                 /\ verification_codes' = DictDel(verification_codes, phone_number)
                 /\ mismatches' = [mismatches EXCEPT ![phone_number] = 0]
                 /\ usedCode' = [usedCode EXCEPT ![phone_number] = code]
                 /\ resp' = Response("verify_code", phone_in, code_in, 200,
                                     "Success", << >>, "none", found)

\* GET /check/{phone_number}: the path parameter is used as it comes
check_verification_status(phone_number) ==
    /\ resp' = Response("check", phone_number, None, 200,
                        IF phone_number \in verified_numbers THEN "Verified" ELSE "NotVerified",
                        << >>, "none", << >>)
    /\ UNCHANGED <<verification_codes, verified_numbers, now, mismatches, lastTwo, usedCode,
                   callVars>>

\* DELETE /reset/{phone_number}: the path parameter is used as it comes
reset_verification(phone_number) ==
    /\ verified_numbers' = verified_numbers \ {phone_number}
    /\ verification_codes' = DictDel(verification_codes, phone_number)
    /\ mismatches' = [k \in Keys |-> IF k = phone_number THEN 0 ELSE mismatches[k]]
    /\ resp' = Response("reset", phone_number, None, 200, "Success", << >>, "none", << >>)
    /\ UNCHANGED <<now, lastTwo, usedCode, callVars>>

\* the clock advances by one minute
Tick ==
    /\ now < MaxTime
    /\ now' = now + 1
    /\ UNCHANGED <<ledgerVars, callVars>>

Next ==
    \/ \E p \in PhoneInputs, c \in generate_verification_code, ok \in BOOLEAN :
          send_verification_code(p, c, ok)
    \/ \E p \in PhoneInputs, c \in CodeInputs : verify_code(p, c)
    \/ \E p \in PhoneInputs : check_verification_status(p)
    \/ \E p \in PhoneInputs : reset_verification(p)
    \/ Tick

Spec == Init /\ [][Next]_vars

\* the ledger with two numbers and a clock that stands still
NextPair ==
    \/ \E p \in PairInputs, c \in generate_verification_code, ok \in BOOLEAN :
          send_verification_code(p, c, ok)
    \/ \E p \in PairInputs, c \in generate_verification_code : verify_code(p, c)
    \/ \E p \in PairInputs : check_verification_status(p)
    \/ \E p \in PairInputs : reset_verification(p)

SpecPair == Init /\ [][NextPair]_vars

\* -------------------------------------------------------- call sessions
\* bound: the number of sessions created
MaxCalls == 1

\* bound: the last minute of the clock in the call specifications
MaxCallTime == 1

\* len(audio_bytes) < 100
AudioThreshold == 100

\* len(mock_audio): the 44-byte WAV header text_to_speech returns on failure
MockAudioLen == 44

\* bytes are modelled by their length and their content's origin
mock_audio == [len |-> MockAudioLen, data |-> "RIFF-header"]

\* what the speech gateway does with one request: an error status, an
\* exception (timeout included), or an answer whose audio decodes to len bytes
TtsOutcomes ==
    { [kind |-> k, len |-> 0] : k \in {"http_error", "exception"} }
    \cup { [kind |-> "ok", len |-> n] : n \in {0, AudioThreshold - 1, AudioThreshold} }

\* text_to_speech letting the failure out
text_to_speech_Raises(outcome) ==
    IF outcome.kind = "ok" THEN << [len |-> outcome.len, data |-> "sarvam"] >> ELSE << >>

\* SarvamVoiceService.text_to_speech: <<bytes>> for a return, << >> for a raise
text_to_speech(outcome) ==
    IF outcome.kind = "ok"
    THEN << [len |-> outcome.len, data |-> "sarvam"] >>
    ELSE << mock_audio >>

\* d.get(k, default)
DictGet(d, k, default) == IF k \in DOMAIN d THEN d[k] ELSE default

\* the value, None or a text, is falsy in an if statement
Falsy(v) == v = None \/ v = << >>

\* the languages and purposes that have a greeting table entry
all_greetings == {"en", "hi", "ta"}
greeting_purposes == {"emi_reminder", "policy_renewal", "loan_offer", "claim_update",
                      "debt_recovery", "lead_generation", "credit_repair"}

\* an unknown language sent to the Hindi table
GreetingText_HindiFallback(language, purpose) ==
    << "greeting",
       IF language \in all_greetings THEN language ELSE "hi",
       IF purpose \in greeting_purposes THEN purpose ELSE "default" >>

\* a text is the sequence of its parts; the greeting text of a table is
\* named by its place in the tables
GreetingText(language, purpose) ==
    << "greeting",
       IF language \in all_greetings THEN language ELSE "en",
       IF purpose \in greeting_purposes THEN purpose ELSE "default" >>

\* the call recording disclosure in the request's language (app.core.security)
get_call_recording_disclosure(language) == << "disclosure", language >>

\* f"{greeting} {disclosure}"
generate_call_greeting(request) ==
    GreetingText(request.language, request.purpose) \o << " " >>
        \o get_call_recording_disclosure(request.language)

\* what the requests of the voice API carry
LanguageInputs == {"en", "hi", "fr"}
PurposeInputs == {"emi_reminder", "survey"}
EmailInputs == { << >>, <<"a@example.com">> }
CallStatusInputs == {"ringing", "x-provider-state"}
OutcomeInputs == {"completed", "voicemail"}
HandoffOutcomes == {"ok", "raise", "audit_raise"}

\* OutboundCallRequest
CallRequests ==
    { [phone_number |-> <<"+", "1">>, purpose |-> p, sector |-> "banking", language |-> l,
       customer_data |-> [email |-> e], public_url |-> None] :
      p \in PurposeInputs, l \in LanguageInputs, e \in EmailInputs }

\* path parameters: the ids that can be issued, and 0, which never is
CallIdInputs == 0..MaxCalls

\* str(uuid.uuid4()): an id no session has
NewCallId(sessions) == Cardinality(DOMAIN sessions) + 1

\* a session created with an outcome
NewSession_WithOutcome(call_id, request, t) ==
    [call_id |-> call_id, phone_number |-> request.phone_number,
     purpose |-> request.purpose, sector |-> request.sector,
     language |-> request.language, customer_data |-> request.customer_data,
     status |-> "initiated", created_at |-> t, messages |-> << >>,
     public_url |-> request.public_url, outcome |-> "completed"]

\* call_sessions[call_id] = {...} at creation
NewSession(call_id, request, t) ==
    [call_id |-> call_id, phone_number |-> request.phone_number,
     purpose |-> request.purpose, sector |-> request.sector,
     language |-> request.language, customer_data |-> request.customer_data,
     status |-> "initiated", created_at |-> t, messages |-> << >>,
     public_url |-> request.public_url]

\* setdefault for the assignment: a field the session has is kept
SessionSet_KeepExisting(sessions, call_id, key, v) ==
    IF key \in DOMAIN sessions[call_id] THEN sessions
    ELSE DictSet(sessions, call_id, DictSet(sessions[call_id], key, v))

\* call_sessions[call_id][key] = v
SessionSet(sessions, call_id, key, v) ==
    DictSet(sessions, call_id, DictSet(sessions[call_id], key, v))

\* the email failure let out of its try block
AfterEmail_Propagates(ok) == IF ok THEN "tts" ELSE "raise"

\* where initiate_outbound_call goes on after the email await: the except
\* clause logs and falls through
AfterEmail(ok) == "tts"

\* the response of the voice API
CallResponse(op, call_id, status, kind, body, env) ==
    [op |-> op, call_id |-> call_id, status |-> status, kind |-> kind,
     body |-> body, env |-> env]

\* HTTPException(500, "Failed to initiate call: ...")
CallInitiationFailed(call_id, env) ==
    CallResponse("outbound", call_id, 500, "CallInitiationFailed", << >>, env)

\* ConsentManager.record_consent(user_id, "outbound_call", granted=False)
record_consent(records, user_id) == records \cup {user_id}

\* a missing consent refusing the request
ConsentGate_Blocking(consent) == consent

\* whether initiate_outbound_call goes on after the consent check: the if
\* statement has no return and no raise, the session is created either way
ConsentGate(consent) == TRUE

\* POST /outbound up to its first await: the consent check, whose answer is
\* consent, records a refusal; the session is created, the
\* greeting generated; the handler waits for the email service if the
\* customer data have an address, for the speech gateway if not
initiate_outbound_call(request, consent) ==
    /\ Cardinality(DOMAIN call_sessions) < MaxCalls
    /\ consent_records' = IF consent
                          THEN consent_records
                          ELSE record_consent(consent_records, request.phone_number)
    /\ IF ConsentGate(consent)
       THEN LET call_id == NewCallId(call_sessions)
                greeting == generate_call_greeting(request)
                email_address == DictGet(request.customer_data, "email", None)
            IN /\ call_sessions' = DictSet(call_sessions, call_id, NewSession(call_id, request, now))
               /\ pending' = DictSet(pending, call_id,
                                [pc |-> IF Falsy(email_address) THEN "tts" ELSE "email",
                                 request |-> request, greeting |-> greeting,
                                 email |-> "skipped",
                                 gateway_calls |-> IF Falsy(email_address) THEN 1 ELSE 0,
                                 consent |-> consent])
               /\ UNCHANGED cresp
       ELSE /\ cresp' = CallResponse("outbound", 0, 403, "ConsentRequired", << >>,
                            [email |-> "skipped", tts |-> << >>, handoff |-> "none",
                             gateway_calls |-> 0, handoff_calls |-> 0, consent |-> consent])
            /\ UNCHANGED <<call_sessions, pending>>
    /\ UNCHANGED <<ledgerVars, now>>

\* POST /outbound from the answer of the email service to the await of the
\* speech gateway
initiate_outbound_call_email(call_id, ok) ==
    /\ call_id \in DOMAIN pending
    /\ pending[call_id].pc = "email"
    /\ LET env == [email |-> IF ok THEN "sent" ELSE "failed",
                   tts |-> << >>, handoff |-> "none",
                   gateway_calls |-> 0, handoff_calls |-> 0,
                   consent |-> pending[call_id].consent] IN
       IF AfterEmail(ok) = "tts"
       THEN /\ pending' = DictSet(pending, call_id,
                             [pending[call_id] EXCEPT !.pc = "tts", !.email = env.email,
                                                      !.gateway_calls = 1])
            /\ UNCHANGED cresp
       ELSE /\ pending' = DictDel(pending, call_id)
            /\ cresp' = CallInitiationFailed(call_id, env)
    /\ UNCHANGED <<ledgerVars, consent_records, now, call_sessions>>

\* the except clause dropping the sessions after a failed hand-off
AfterHandoff_Rollback(stored, placed, handoff) == IF handoff = "raise" THEN << >> ELSE placed

\* the provider's id and status stored although the hand-off raised
AfterHandoff_Always(stored, placed, handoff) == placed

\* the sessions after client.calls.create: the two assignments that follow
\* it are reached only when it returned
AfterHandoff(stored, placed, handoff) == IF handoff = "raise" THEN stored ELSE placed

\* audio and greeting not stored by the time of the hand-off
StoreAudio_Deferred(sessions, call_id, audio_bytes, greeting) == sessions

\* call_sessions[call_id]["audio_bytes"] = audio_bytes and
\* call_sessions[call_id]["greeting"] = greeting, before the provider's
\* client is made
StoreAudio(sessions, call_id, audio_bytes, greeting) ==
    SessionSet(SessionSet(sessions, call_id, "audio_bytes", audio_bytes),
               call_id, "greeting", greeting)

\* a failed synthesis asked for again, up to three requests
AfterGateway_Retry(outcome, calls) ==
    IF outcome.kind # "ok" /\ calls < 3 THEN "retry" ELSE "store"

\* where initiate_outbound_call goes on after the answer of the speech
\* gateway: the await is in straight-line code, whatever came back is stored
AfterGateway(outcome, calls) == "store"

\* POST /outbound from the answer of the speech gateway to the response:
\* audio and greeting are stored, the call is handed to the provider with a
\* blocking client call, the provider's id and status are stored. The
\* response notes how often the gateway and the provider were called
initiate_outbound_call_tts(call_id, outcome, handoff) ==
    /\ call_id \in DOMAIN pending
    /\ pending[call_id].pc = "tts"
    /\ LET request == pending[call_id].request
           greeting == pending[call_id].greeting
           audio == text_to_speech(outcome)
           env == [email |-> pending[call_id].email, tts |-> <<outcome>>,
                   handoff |-> IF audio = << >> THEN "none" ELSE handoff,
                   gateway_calls |-> pending[call_id].gateway_calls,
                   handoff_calls |-> IF audio = << >> THEN 0 ELSE 1,
                   consent |-> pending[call_id].consent]
       IN
       IF AfterGateway(outcome, pending[call_id].gateway_calls) = "retry"
       THEN /\ pending' = DictSet(pending, call_id,
                             [pending[call_id] EXCEPT !.gateway_calls = @ + 1])
            /\ UNCHANGED <<call_sessions, cresp>>
       ELSE /\ pending' = DictDel(pending, call_id)
            /\ IF audio = << >>
               THEN /\ cresp' = CallInitiationFailed(call_id, env)
                    /\ UNCHANGED call_sessions
               ELSE LET stored == StoreAudio(call_sessions, call_id, audio[1], greeting)
                        twilio_call == [sid |-> <<"CA", call_id>>, status |-> "queued"]
                        placed == SessionSet(SessionSet(stored, call_id, "twilio_call_sid", twilio_call.sid),
                                             call_id, "twilio_status", twilio_call.status)
                    IN
                    /\ call_sessions' = AfterHandoff(stored, placed, handoff)
                    /\ cresp' = IF handoff = "raise"
                                THEN CallInitiationFailed(call_id, env)
                                ELSE IF handoff = "audit_raise"
                                THEN CallInitiationFailed(call_id, env)
                                ELSE CallResponse("outbound", call_id, 200, "Success",
                                        [call_id |-> call_id, twilio_sid |-> twilio_call.sid,
                                         status |-> twilio_call.status, greeting |-> greeting,
                                         phone_number |-> request.phone_number], env)
    /\ UNCHANGED <<ledgerVars, consent_records, now>>

\* POST /call/{call_id}/complete; auditOk: audit_log returned. The response
\* notes the outcome given and the outcome the session had
complete_call(call_id, outcome, auditOk) ==
    /\ IF call_id \notin DOMAIN call_sessions
       THEN /\ cresp' = CallResponse("complete", call_id, 404, "NotFound", << >>,
                                     [outcome |-> <<outcome>>, prior |-> << >>])
            /\ UNCHANGED call_sessions
       ELSE LET env == [outcome |-> <<outcome>>,
                        prior |-> IF "outcome" \in DOMAIN call_sessions[call_id]
                                  THEN << call_sessions[call_id]["outcome"] >> ELSE << >>]
            IN
            /\ call_sessions' =
                 SessionSet(SessionSet(SessionSet(call_sessions, call_id, "status", "completed"),
                                       call_id, "outcome", outcome),
                            call_id, "completed_at", now)
            /\ cresp' = IF auditOk
                        THEN CallResponse("complete", call_id, 200, "Success", << >>, env)
                        ELSE CallResponse("complete", call_id, 500, "InternalError", << >>, env)
    /\ UNCHANGED <<ledgerVars, consent_records, now, pending>>

\* the audio served only when it counts as real audio
AudioStored_Playable(sessions, call_id) ==
    /\ call_id \in DOMAIN sessions
    /\ "audio_bytes" \in DOMAIN sessions[call_id]
    /\ sessions[call_id]["audio_bytes"].len >= AudioThreshold

\* not (call_id not in call_sessions or "audio_bytes" not in call_sessions[call_id])
AudioStored(sessions, call_id) ==
    /\ call_id \in DOMAIN sessions
    /\ "audio_bytes" \in DOMAIN sessions[call_id]

\* the path of get_call_audio, "/audio/{call_id}.wav" under the prefix
\* "/api/voice" the router is included with
AudioRoute(call_id) == <<"/api/voice/audio/", call_id, ".wav">>

\* GET /audio/{call_id}.wav
get_call_audio(call_id) ==
    /\ cresp' = IF ~ AudioStored(call_sessions, call_id)
                THEN CallResponse("audio", call_id, 404, "AudioNotAvailable", << >>, << >>)
                ELSE CallResponse("audio", call_id, 200, "Success",
                        [content |-> call_sessions[call_id]["audio_bytes"],
                         content_length |-> call_sessions[call_id]["audio_bytes"].len],
                        << >>)
    /\ UNCHANGED <<ledgerVars, consent_records, now, call_sessions, pending>>

\* the voice table without its non-English rows
TWILIO_VOICES_EnglishOnly(language) == <<"alice", "en-IN">>

\* TWILIO_VOICES.get(language, ("alice", "en-IN"))
TWILIO_VOICES(language) ==
    IF language = "en" THEN <<"alice", "en-IN">>
    ELSE IF language = "hi" THEN <<"Polly.Aditi", "hi-IN">>
    ELSE IF language = "ta" THEN <<"Polly.Aditi", "ta-IN">>
    ELSE IF language = "te" THEN <<"Polly.Aditi", "te-IN">>
    ELSE IF language = "mr" THEN <<"Polly.Aditi", "mr-IN">>
    ELSE IF language = "bn" THEN <<"Polly.Aditi", "bn-IN">>
    ELSE <<"alice", "en-IN">>

\* greeting.replace('&', '&amp;').replace('<', '&lt;').replace('>', '&gt;')
XmlEscape(text) ==
    [i \in 1..Len(text) |->
        IF text[i] = "&" THEN "&amp;"
        ELSE IF text[i] = "<" THEN "&lt;"
        ELSE IF text[i] = ">" THEN "&gt;"
        ELSE text[i]]

\* the elements of a TwiML document
Say(voice, language, text) == [tag |-> "Say", voice |-> voice, language |-> language, body |-> text]
Play(url) == [tag |-> "Play", voice |-> None, language |-> None, body |-> url]
Pause == [tag |-> "Pause", voice |-> None, language |-> None, body |-> <<"1">>]

Goodbye == <<"Thank you for your time. Goodbye.">>
DefaultGreeting == <<"Hello, this is a call from your bank.">>

\* settings.PUBLIC_URL, or FRONTEND_URL with port 8000
SettingsBaseUrl == <<"https://", "host">>

\* url.rstrip('/')
RECURSIVE rstrip_slash(_)
rstrip_slash(url) ==
    IF url # << >> /\ url[Len(url)] = "/"
    THEN rstrip_slash(SubSeq(url, 1, Len(url) - 1))
    ELSE url

\* public_url.rstrip('/') of the session, else the configured base
BaseUrl(session) ==
    IF ~ Falsy(DictGet(session, "public_url", None))
    THEN rstrip_slash(session["public_url"])
    ELSE SettingsBaseUrl

\* the URL of the script in the place of the URL of the audio
AudioUrl_Script(base_url, call_id) == base_url \o <<"/api/voice/twiml/", call_id>>

\* f"{base_url}/api/voice/audio/{call_id}.wav"
AudioUrl(base_url, call_id) == base_url \o <<"/api/voice/audio/", call_id, ".wav">>

\* the size test with <= for <
UseFallbackTts_Inclusive(session) ==
    DictGet(session, "audio_bytes", [len |-> 0, data |-> ""]).len <= AudioThreshold

\* audio_bytes = session.get("audio_bytes", b""); len(audio_bytes) < 100
UseFallbackTts(session) ==
    DictGet(session, "audio_bytes", [len |-> 0, data |-> ""]).len < AudioThreshold

\* the fallback document of the except clause replaced by an error response
TwimlResponse_Error(doc) ==
    IF doc = <<Say(None, None, <<"System error.">>)>>
    THEN [status |-> 500, body |-> << >>]
    ELSE [status |-> 200, body |-> doc]

\* Response(content=twiml, media_type="application/xml")
TwimlResponse(doc) == [status |-> 200, body |-> doc]

\* the document of get_twiml_for_call for a known session
Twiml(session, call_id) ==
    LET voice == TWILIO_VOICES(DictGet(session, "language", "en"))[1]
        lang_code == TWILIO_VOICES(DictGet(session, "language", "en"))[2]
    IN IF UseFallbackTts(session)
       THEN << Say(voice, lang_code, XmlEscape(DictGet(session, "greeting", DefaultGreeting))),
               Pause,
               Say(voice, lang_code, Goodbye) >>
       ELSE << Play(AudioUrl(BaseUrl(session), call_id)),
               Pause,
               Say("alice", "en-IN", Goodbye) >>

\* POST /twiml/{call_id}; fault: something in the try block raised
get_twiml_for_call(call_id, fault) ==
    /\ LET doc == IF fault THEN <<Say(None, None, <<"System error.">>)>>
                  ELSE IF call_id \notin DOMAIN call_sessions
                  THEN <<Say(None, None, <<"Meeting not found.">>)>>
                  ELSE Twiml(call_sessions[call_id], call_id)
           kind == IF fault THEN "SystemError"
                   ELSE IF call_id \notin DOMAIN call_sessions THEN "NotFound"
                   ELSE IF UseFallbackTts(call_sessions[call_id]) THEN "Speak" ELSE "Play"
       IN cresp' = CallResponse("twiml", call_id, TwimlResponse(doc).status, kind,
                                TwimlResponse(doc).body, << >>)
    /\ UNCHANGED <<ledgerVars, consent_records, now, call_sessions, pending>>

\* the callback writing the local status field
StatusField_Local == "status"

\* the session field handle_call_status writes CallStatus to
StatusField == "twilio_status"

\* the two assignments made for an id without a session as well
StatusUpdate_Upsert(sessions, call_id, CallStatus, t) ==
    DictSet(sessions, call_id,
            DictSet(DictSet(DictGet(sessions, call_id, << >>), StatusField, CallStatus),
                    "last_status_update", t))

\* if call_id in call_sessions: the two assignments of handle_call_status
StatusUpdate(sessions, call_id, CallStatus, t) ==
    IF call_id \in DOMAIN sessions
    THEN SessionSet(SessionSet(sessions, call_id, StatusField, CallStatus),
                    call_id, "last_status_update", t)
    ELSE sessions

\* the exception of the status callback answered as a server error
CallbackErrorStatus_Propagates(raised) == 500

\* the status of the answer built by the except clause of
\* handle_call_status: a plain dict, so 200
CallbackErrorStatus(raised) == 200

\* POST /status/{call_id}; auditOk: audit_log returned
handle_call_status(call_id, CallStatus, auditOk) ==
    /\ call_sessions' = StatusUpdate(call_sessions, call_id, CallStatus, now)
    /\ cresp' = IF call_id \in DOMAIN call_sessions /\ ~ auditOk
                THEN CallResponse("status", call_id, CallbackErrorStatus(500), "ReportedError",
                                  [success |-> FALSE], <<CallStatus>>)
                ELSE CallResponse("status", call_id, 200, "Success",
                                  [success |-> TRUE], <<CallStatus>>)
    /\ UNCHANGED <<ledgerVars, consent_records, now, pending>>

\* the clock of the call specifications
CallTick == now < MaxCallTime /\ Tick

NextCalls ==
    \/ \E r \in CallRequests, c \in BOOLEAN : initiate_outbound_call(r, c)
    \/ \E id \in CallIdInputs, ok \in BOOLEAN : initiate_outbound_call_email(id, ok)
    \/ \E id \in CallIdInputs, o \in TtsOutcomes, h \in HandoffOutcomes :
          initiate_outbound_call_tts(id, o, h)
    \/ \E id \in CallIdInputs, o \in OutcomeInputs, a \in BOOLEAN : complete_call(id, o, a)
    \/ \E id \in CallIdInputs, f \in BOOLEAN : get_twiml_for_call(id, f)
    \/ \E id \in CallIdInputs : get_call_audio(id)
    \/ \E id \in CallIdInputs, s \in CallStatusInputs, a \in BOOLEAN :
          handle_call_status(id, s, a)
    \/ CallTick

SpecCalls == Init /\ [][NextCalls]_vars

\* the services initiate_outbound_call waits for answer or raise in the
\* end: the email service, and the speech gateway, whose request has a
\* timeout of 30 seconds
CallsFairness ==
    \A id \in 1..MaxCalls :
       /\ WF_vars(\E ok \in BOOLEAN : initiate_outbound_call_email(id, ok))
       /\ WF_vars(\E o \in TtsOutcomes, h \in HandoffOutcomes :
                    initiate_outbound_call_tts(id, o, h))

\* session creation with script requests and status callbacks in between,
\* the clock standing still
NextCreate ==
    \/ \E r \in CallRequests, c \in BOOLEAN : initiate_outbound_call(r, c)
    \/ \E id \in CallIdInputs, ok \in BOOLEAN : initiate_outbound_call_email(id, ok)
    \/ \E id \in CallIdInputs, o \in TtsOutcomes, h \in HandoffOutcomes :
          initiate_outbound_call_tts(id, o, h)
    \/ \E id \in CallIdInputs, f \in BOOLEAN : get_twiml_for_call(id, f)
    \/ \E id \in CallIdInputs, s \in CallStatusInputs, a \in BOOLEAN :
          handle_call_status(id, s, a)

SpecCreateFair == Init /\ [][NextCreate]_vars /\ CallsFairness

\* requests in every language of the voice table and in one it has not,
\* without an email address
LanguageRequests ==
    { [phone_number |-> <<"+", "1">>, purpose |-> p, sector |-> "banking", language |-> l,
       customer_data |-> [email |-> << >>], public_url |-> None] :
      p \in PurposeInputs, l \in {"en", "hi", "ta", "te", "mr", "bn", "fr"} }

\* session creation, script and audio, in every language
NextLanguages ==
    \/ \E r \in LanguageRequests, c \in BOOLEAN : initiate_outbound_call(r, c)
    \/ \E id \in CallIdInputs, o \in TtsOutcomes, h \in HandoffOutcomes :
          initiate_outbound_call_tts(id, o, h)
    \/ \E id \in CallIdInputs, f \in BOOLEAN : get_twiml_for_call(id, f)
    \/ \E id \in CallIdInputs : get_call_audio(id)

SpecLanguages == Init /\ [][NextLanguages]_vars

\* requests for one number, in one language and for one purpose
ConsentRequests ==
    { r \in CallRequests : r.language = "en" /\ r.purpose = "emi_reminder" }

\* the verification ledger and session creation side by side for the number
\* of ConsentRequests, the clock standing still
NextConsent ==
    \/ \E c \in generate_verification_code, ok \in BOOLEAN :
          send_verification_code(<<"+", "1">>, c, ok)
    \/ \E c \in generate_verification_code : verify_code(<<"+", "1">>, c)
    \/ reset_verification(<<"+", "1">>)
    \/ \E r \in ConsentRequests, c \in BOOLEAN : initiate_outbound_call(r, c)
    \/ \E id \in CallIdInputs, ok \in BOOLEAN : initiate_outbound_call_email(id, ok)
    \/ \E id \in CallIdInputs, o \in TtsOutcomes, h \in HandoffOutcomes :
          initiate_outbound_call_tts(id, o, h)

SpecConsent == Init /\ [][NextConsent]_vars

\* session creation, completion and status callbacks, the clock standing
\* still
NextStatus ==
    \/ \E r \in ConsentRequests, c \in BOOLEAN : initiate_outbound_call(r, c)
    \/ \E id \in CallIdInputs, ok \in BOOLEAN : initiate_outbound_call_email(id, ok)
    \/ \E id \in CallIdInputs, o \in TtsOutcomes, h \in HandoffOutcomes :
          initiate_outbound_call_tts(id, o, h)
    \/ \E id \in CallIdInputs, o \in OutcomeInputs, a \in BOOLEAN : complete_call(id, o, a)
    \/ \E id \in CallIdInputs, s \in CallStatusInputs, a \in BOOLEAN :
          handle_call_status(id, s, a)

SpecStatus == Init /\ [][NextStatus]_vars

\* ------------------------------------------------------------ properties
\* the entry of number k is in the ledger and its expiry has not passed
Live(k) ==
    /\ k \in DOMAIN verification_codes
    /\ now <= verification_codes[k].expires_at

\* resp is the response of a verify_code call that found an entry
VerifyFound == resp.op = "verify_code" /\ resp.found # << >>

\* the step is a verify_code request, with arguments resp'.phone and resp'.code
VerifyStep == resp'.op = "verify_code" /\ verify_code(resp'.phone, resp'.code)

\* the step is a send_verification_code request for resp'.phone
SendStep ==
    /\ resp'.op = "send_code"
    /\ \E c \in generate_verification_code, ok \in BOOLEAN :
          send_verification_code(resp'.phone, c, ok)

\* the step is a check_verification_status request for resp'.phone
CheckStep == resp'.op = "check" /\ check_verification_status(resp'.phone)

\* the step is a reset_verification request for resp'.phone
ResetStep == resp'.op = "reset" /\ reset_verification(resp'.phone)

\* the stripped number and code of the step's request
ReqKey == strip(resp'.phone)
ReqCode == strip(resp'.code)

\* C1: a verify_code call with the correct code on a live, unexpired entry
\* that has had three wrong-code calls fails with AttemptsExhausted, leaves
\* the verified set as it was and removes the entry.
C1_ExhaustedAfterThreeWrong ==
    [][(/\ VerifyStep
        /\ Live(ReqKey)
        /\ mismatches[ReqKey] = 3
        /\ ReqCode = verification_codes[ReqKey].code)
       => /\ resp'.kind = "AttemptsExhausted"
          /\ resp'.status = 400
          /\ verified_numbers' = verified_numbers
          /\ ReqKey \notin DOMAIN verification_codes']_vars

C1_Witness ==
    /\ VerifyFound
    /\ resp.kind = "AttemptsExhausted"
    /\ resp.found[1].correct
    /\ resp.found[1].when # "after"
    /\ strip(resp.phone) \notin DOMAIN verification_codes

\* C2: a number enters the verified set only in a verify_code step for that
\* number whose code equals the code of the entry then in the ledger, the
\* entry's expiry not having passed and its attempts being below 3; no other
\* step adds a number.
C2_VerifiedOnlyByMatch ==
    [][\A k \in verified_numbers' \ verified_numbers :
         /\ VerifyStep
         /\ resp'.kind = "Success"
         /\ ReqKey = k
         /\ k \in DOMAIN verification_codes
         /\ ReqCode = verification_codes[k].code
         /\ now <= verification_codes[k].expires_at
         /\ verification_codes[k].attempts < 3]_vars

C2_Witness ==
    /\ VerifyFound
    /\ resp.kind = "Success"
    /\ strip(resp.phone) \in verified_numbers

\* C3 as stated: after two successive issues (codes c1 then c2) a
\* verify_code with c1 fails with NotFound or CodeMismatch.
C3_Original ==
    [][(/\ VerifyStep
        /\ lastTwo[ReqKey] # << >>
        /\ ReqCode = lastTwo[ReqKey][1])
       => resp'.kind \in {"NotFound", "CodeMismatch"}]_vars

\* C3 amended: after two successive issues that drew different codes c1
\* then c2, a verify_code with c1 does not succeed and does not add the
\* number to the verified set; it fails with CodeMismatch, NotFound, Expired
\* or AttemptsExhausted.
C3_FirstCodeInvalidated ==
    [][(/\ VerifyStep
        /\ lastTwo[ReqKey] # << >>
        /\ lastTwo[ReqKey][1] # lastTwo[ReqKey][2]
        /\ ReqCode = lastTwo[ReqKey][1])
       => /\ resp'.kind \in {"CodeMismatch", "NotFound", "Expired", "AttemptsExhausted"}
          /\ verified_numbers' = verified_numbers]_vars

C3_Witness ==
    /\ VerifyFound
    /\ resp.kind = "CodeMismatch"
    /\ lastTwo[strip(resp.phone)] # << >>
    /\ lastTwo[strip(resp.phone)][1] # lastTwo[strip(resp.phone)][2]
    /\ strip(resp.code) = lastTwo[strip(resp.phone)][1]

\* C4: a verify_code call with the correct code on an entry whose expiry has
\* not passed and whose attempts are below 3 succeeds, adds the number to
\* the verified set and removes the entry; a later verify_code with that
\* code, no code having been issued in between, fails with NotFound.
C4_VerifyOnceThenNotFound ==
    [][/\ (/\ VerifyStep
           /\ Live(ReqKey)
           /\ verification_codes[ReqKey].attempts < 3
           /\ ReqCode = verification_codes[ReqKey].code)
          => /\ resp'.kind = "Success"
             /\ resp'.status = 200
             /\ ReqKey \in verified_numbers'
             /\ ReqKey \notin DOMAIN verification_codes'
       /\ (/\ VerifyStep
           /\ usedCode[ReqKey] # None
           /\ ReqCode = usedCode[ReqKey])
          => /\ resp'.kind = "NotFound"
             /\ resp'.status = 404
             /\ verified_numbers' = verified_numbers]_vars

C4_Witness ==
    /\ resp.op = "verify_code"
    /\ resp.kind = "NotFound"
    /\ usedCode[strip(resp.phone)] # None
    /\ strip(resp.code) = usedCode[strip(resp.phone)]
    /\ strip(resp.phone) \in verified_numbers

\* C5 as stated: the correct code for an entry with attempts below 3 is
\* accepted if and only if the call comes strictly before expires_at, and a
\* call one tick after expires_at fails with Expired.
C5_Original ==
    [][(/\ VerifyStep
        /\ ReqKey \in DOMAIN verification_codes
        /\ verification_codes[ReqKey].attempts < 3
        /\ ReqCode = verification_codes[ReqKey].code)
       => /\ (resp'.kind = "Success") <=> (now < verification_codes[ReqKey].expires_at)
          /\ (now = verification_codes[ReqKey].expires_at + 1) => resp'.kind = "Expired"]_vars

\* C5 amended: the correct code for an entry with attempts below 3 is
\* accepted if and only if the call comes at or before expires_at (the
\* expiry instant itself is still accepted); every later call, the one at
\* expires_at + 1 tick included, fails with Expired.
C5_AcceptedUntilExpiry ==
    [][(/\ VerifyStep
        /\ ReqKey \in DOMAIN verification_codes
        /\ verification_codes[ReqKey].attempts < 3
        /\ ReqCode = verification_codes[ReqKey].code)
       => /\ (resp'.kind = "Success") <=> (now <= verification_codes[ReqKey].expires_at)
          /\ (now > verification_codes[ReqKey].expires_at) => resp'.kind = "Expired"]_vars

\* accepted at the expiry instant itself
C5_Witness ==
    /\ VerifyFound
    /\ resp.kind = "Success"
    /\ resp.found[1].when = "at"

\* C6: on an entry whose expiry has not passed, the k-th wrong-code
\* verify_code since the issue (k = 1, 2, 3) fails with CodeMismatch and
\* reports 3 - k attempts remaining; after fewer than 3 wrong calls the
\* correct code succeeds, and a check of the number right after a success
\* reports it verified.
C6_RemainingThenSuccess ==
    [][/\ (VerifyStep /\ Live(ReqKey) /\ mismatches[ReqKey] < 3)
          => IF ReqCode # verification_codes[ReqKey].code
             THEN /\ resp'.kind = "CodeMismatch"
                  /\ resp'.status = 400
                  /\ resp'.remaining = << 3 - (mismatches[ReqKey] + 1) >>
                  /\ ReqKey \notin verified_numbers' \ verified_numbers
             ELSE /\ resp'.kind = "Success"
                  /\ ReqKey \in verified_numbers'
       /\ (/\ CheckStep
           /\ resp.op = "verify_code" /\ resp.kind = "Success"
           /\ resp'.phone = strip(resp.phone))
          => resp'.kind = "Verified"]_vars

\* one wrong code (2 attempts remaining), then the correct code
C6_Witness ==
    /\ VerifyFound
    /\ resp.kind = "Success"
    /\ resp.found[1].attempts = 1
    /\ strip(resp.phone) \in verified_numbers

\* C7: the wrong-code call that raises attempts to 3 keeps the entry, with
\* attempts = 3; the next verify_code for the number removes it whatever its
\* code; and an entry with attempts = 3 leaves the ledger only through a
\* verify_code or a reset for its number, or is replaced by a new issue.
C7_RemovedOnNextCall ==
    [][/\ (/\ VerifyStep
           /\ Live(ReqKey)
           /\ verification_codes[ReqKey].attempts = 2
           /\ ReqCode # verification_codes[ReqKey].code)
          => /\ resp'.kind = "CodeMismatch"
             /\ ReqKey \in DOMAIN verification_codes'
             /\ verification_codes'[ReqKey] =
                   [verification_codes[ReqKey] EXCEPT !.attempts = 3]
       /\ (/\ VerifyStep
           /\ ReqKey \in DOMAIN verification_codes
           /\ verification_codes[ReqKey].attempts = 3)
          => /\ ReqKey \notin DOMAIN verification_codes'
             /\ resp'.kind \in {"AttemptsExhausted", "Expired"}
       /\ \A k \in DOMAIN verification_codes :
            verification_codes[k].attempts = 3
            => \/ /\ k \in DOMAIN verification_codes'
                  /\ verification_codes'[k] = verification_codes[k]
               \/ /\ k \notin DOMAIN verification_codes'
                  /\ \/ VerifyStep /\ ReqKey = k
                     \/ ResetStep /\ resp'.phone = k
               \/ /\ k \in DOMAIN verification_codes'
                  /\ verification_codes'[k].attempts = 0
                  /\ SendStep /\ ReqKey = k]_vars

\* the third wrong code was answered and the entry is still in the ledger
C7_Witness ==
    /\ VerifyFound
    /\ resp.kind = "CodeMismatch"
    /\ resp.remaining = << 0 >>
    /\ strip(resp.phone) \in DOMAIN verification_codes
    /\ verification_codes[strip(resp.phone)].attempts = 3

\* C8: send_verification_code with a number that does not begin with '+'
\* fails with InvalidPhoneFormat as a client error (status 4xx, unlike the
\* server error of a failed delivery), changes no ledger entry and attempts
\* no delivery.
C8_InvalidPhoneClientError ==
    [][(SendStep /\ ~ startswith(ReqKey, "+"))
       => /\ resp'.kind = "InvalidPhoneFormat"
          /\ resp'.status \in 400..499
          /\ resp'.delivery = "none"
          /\ verification_codes' = verification_codes]_vars

\* C9: when the delivery fails, send_verification_code answers DeliveryFailed
\* and the ledger holds the new entry (the drawn code, attempts 0, expiry
\* now + 5 minutes) in place of any entry the number had before.
C9_DeliveryFailureKeepsEntry ==
    [][(SendStep /\ resp'.delivery = "failed")
       => /\ resp'.kind = "DeliveryFailed"
          /\ resp'.status = 500
          /\ ReqKey \in DOMAIN verification_codes'
          /\ verification_codes'[ReqKey] =
                [code |-> resp'.code, expires_at |-> now + 5, attempts |-> 0]
          /\ \A j \in DOMAIN verification_codes' \ {ReqKey} :
               j \in DOMAIN verification_codes
               /\ verification_codes'[j] = verification_codes[j]]_vars

\* the failed delivery came upon an entry with another code, now replaced
C9_Witness ==
    /\ resp.op = "send_code"
    /\ resp.kind = "DeliveryFailed"
    /\ resp.found # << >>
    /\ ~ resp.found[1].correct
    /\ strip(resp.phone) \in DOMAIN verification_codes
    /\ verification_codes[strip(resp.phone)].code = resp.code

\* C10: send_verification_code for a number that has an entry (whatever its
\* attempts and expiry) leaves exactly one entry for it, with the drawn
\* code, attempts 0 and expiry now + 5 minutes; every key of the ledger is a
\* stripped number beginning with '+', so no number has two entries.
C10_IssueReplacesEntry ==
    /\ [](\A k \in DOMAIN verification_codes : strip(k) = k /\ startswith(k, "+"))
    /\ [][(SendStep /\ ReqKey \in DOMAIN verification_codes)
          => /\ DOMAIN verification_codes' = DOMAIN verification_codes
             /\ verification_codes'[ReqKey].code = resp'.code
             /\ verification_codes'[ReqKey].attempts = 0
             /\ verification_codes'[ReqKey].expires_at = now + 5]_vars

\* a new code was issued over an expired entry with 3 attempts
C10_Witness ==
    /\ resp.op = "send_code"
    /\ resp.found # << >>
    /\ resp.found[1].attempts = 3
    /\ resp.found[1].when = "after"
    /\ strip(resp.phone) \in DOMAIN verification_codes
    /\ verification_codes[strip(resp.phone)].attempts = 0

\* C11: verify_code on an entry whose expiry has passed fails with Expired
\* whatever the code and the attempts, removes the entry and leaves the
\* verified set as it was; the next verify_code for the number fails with
\* NotFound.
C11_ExpiredTakesPrecedence ==
    [][/\ (/\ VerifyStep
           /\ ReqKey \in DOMAIN verification_codes
           /\ now > verification_codes[ReqKey].expires_at)
          => /\ resp'.kind = "Expired"
             /\ resp'.status = 400
             /\ ReqKey \notin DOMAIN verification_codes'
             /\ verified_numbers' = verified_numbers
       /\ (/\ VerifyStep
           /\ resp.op = "verify_code" /\ resp.kind = "Expired"
           /\ strip(resp.phone) = ReqKey)
          => /\ resp'.kind = "NotFound"
             /\ resp'.status = 404]_vars

\* the correct code met an expired entry that had used up its attempts
C11_Witness ==
    /\ VerifyFound
    /\ resp.kind = "Expired"
    /\ resp.found[1].attempts = 3
    /\ resp.found[1].correct
    /\ resp.found[1].when = "after"

\* C12: a number leaves the verified set only in a reset_verification step
\* for that number; send_verification_code for a verified number and
\* failed verify_code calls keep it.
C12_VerifiedOnlyShrinksByReset ==
    [][\A k \in verified_numbers \ verified_numbers' :
         ResetStep /\ resp'.phone = k]_vars

\* a code was issued for a number that is, and stays, verified
C12_Witness ==
    /\ resp.op = "send_code"
    /\ resp.kind \in {"Success", "DeliveryFailed"}
    /\ strip(resp.phone) \in verified_numbers

\* C13: reset_verification(p) succeeds, leaves p outside the verified set
\* and without an entry, leaves every other number's membership and entry
\* as they were, and a reset that follows a reset of the same p changes
\* nothing.
C13_ResetIdempotent ==
    [][ResetStep
       => /\ resp'.status = 200
          /\ resp'.kind = "Success"
          /\ resp'.phone \notin verified_numbers'
          /\ resp'.phone \notin DOMAIN verification_codes'
          /\ verified_numbers' \ {resp'.phone} = verified_numbers \ {resp'.phone}
          /\ DOMAIN verification_codes' \ {resp'.phone}
                = DOMAIN verification_codes \ {resp'.phone}
          /\ \A j \in DOMAIN verification_codes \ {resp'.phone} :
               verification_codes'[j] = verification_codes[j]
          /\ (resp.op = "reset" /\ resp.phone = resp'.phone)
             => /\ verified_numbers' = verified_numbers
                /\ verification_codes' = verification_codes]_vars

\* a number was reset while another number is verified and has an entry
C13_Witness ==
    /\ resp.op = "reset"
    /\ \E j \in verified_numbers \cap DOMAIN verification_codes : j # resp.phone

\* C14: verify_code has no suspension point, so concurrent requests for a
\* number run one after the other: the attempts of an entry equal the
\* number of CodeMismatch answers given for it, a request is compared
\* against the code only when fewer than 3 were before, and after a success
\* no request succeeds until a new code is issued.
C14_RequestsAtomic ==
    /\ [](\A k \in DOMAIN verification_codes :
            /\ verification_codes[k].attempts = mismatches[k]
            /\ mismatches[k] <= 3)
    /\ [][/\ (VerifyStep /\ resp'.kind \in {"CodeMismatch", "Success"})
             => mismatches[ReqKey] < 3
          /\ (VerifyStep /\ usedCode[ReqKey] # None)
             => resp'.kind # "Success"]_vars

\* three requests were compared against one code
C14_Witness ==
    /\ VerifyFound
    /\ resp.kind = "CodeMismatch"
    /\ resp.found[1].attempts = 2
    /\ mismatches[strip(resp.phone)] = 3

\* ------------------------------------------------ call session properties
\* the step is the last part of initiate_outbound_call for cresp'.call_id,
\* with the gateway outcome and the hand-off outcome noted in cresp'.env
TtsStep ==
    /\ cresp'.op = "outbound"
    /\ cresp'.env.tts # << >>
    /\ initiate_outbound_call_tts(cresp'.call_id, cresp'.env.tts[1], cresp'.env.handoff)

\* the step is a get_twiml_for_call request for cresp'.call_id
TwimlStep ==
    /\ cresp'.op = "twiml"
    /\ \E f \in BOOLEAN : get_twiml_for_call(cresp'.call_id, f)

\* the step is a handle_call_status request for cresp'.call_id with
\* CallStatus cresp'.env[1]
StatusStep ==
    /\ cresp'.op = "status"
    /\ \E a \in BOOLEAN : handle_call_status(cresp'.call_id, cresp'.env[1], a)

\* the document has a Play element
HasPlay(doc) == \E i \in 1..Len(doc) : doc[i].tag = "Play"

\* C15: when the speech gateway fails (error status or exception) the
\* session's audio_bytes become the fixed 44-byte payload, shorter than
\* 100 bytes, the hand-off to the provider is attempted, and the request
\* fails only when the hand-off or the audit step fails.
C15_GatewayFailureDegrades ==
    [][(TtsStep /\ cresp'.env.tts[1].kind \in {"http_error", "exception"})
       => /\ cresp'.call_id \in DOMAIN call_sessions'
          /\ "audio_bytes" \in DOMAIN call_sessions'[cresp'.call_id]
          /\ call_sessions'[cresp'.call_id]["audio_bytes"] = mock_audio
          /\ call_sessions'[cresp'.call_id]["audio_bytes"].len < 100
          /\ cresp'.env.handoff \in HandoffOutcomes
          /\ (cresp'.env.handoff = "ok")
             => /\ cresp'.status = 200
                /\ "twilio_call_sid" \in DOMAIN call_sessions'[cresp'.call_id]]_vars

\* the gateway raised and the call was placed with the fixed payload
C15_Witness ==
    /\ cresp.op = "outbound"
    /\ cresp.status = 200
    /\ cresp.env.tts[1].kind = "exception"
    /\ call_sessions[cresp.call_id]["audio_bytes"].len = 44
    /\ "twilio_call_sid" \in DOMAIN call_sessions[cresp.call_id]

\* C16: for a known session and no internal fault, get_twiml_for_call
\* answers the speak document when the stored payload has fewer than 100
\* bytes (an absent payload counts as empty) and the playback document when
\* it has 100 or more.
C16_BranchByPayloadSize ==
    [][(/\ TwimlStep
        /\ cresp'.kind # "SystemError"
        /\ cresp'.call_id \in DOMAIN call_sessions)
       => LET session == call_sessions[cresp'.call_id]
              size == IF "audio_bytes" \in DOMAIN session
                      THEN session["audio_bytes"].len ELSE 0
          IN /\ (size < 100) => (cresp'.kind = "Speak" /\ ~ HasPlay(cresp'.body)
                                 /\ cresp'.body[1].tag = "Say")
             /\ (size >= 100) => (cresp'.kind = "Play" /\ cresp'.body[1].tag = "Play")]_vars

\* a payload of 99 bytes was answered with the speak document
C16_Witness ==
    /\ cresp.op = "twiml"
    /\ cresp.kind = "Speak"
    /\ cresp.call_id \in DOMAIN call_sessions
    /\ "audio_bytes" \in DOMAIN call_sessions[cresp.call_id]
    /\ call_sessions[cresp.call_id]["audio_bytes"].len = 99

\* C17: get_twiml_for_call answers every request with status 200 and a
\* document: "Meeting not found." for an unknown id, a speak or play
\* document for a known one, "System error." when something raised; no
\* session is changed.
C17_AlwaysADocument ==
    [][TwimlStep
       => /\ cresp'.status = 200
          /\ Len(cresp'.body) >= 1
          /\ cresp'.kind \in {"NotFound", "Speak", "Play", "SystemError"}
          /\ (cresp'.kind = "SystemError")
             => cresp'.body = <<Say(None, None, <<"System error.">>)>>
          /\ (cresp'.kind # "SystemError" /\ cresp'.call_id \notin DOMAIN call_sessions)
             => /\ cresp'.kind = "NotFound"
                /\ cresp'.body = <<Say(None, None, <<"Meeting not found.">>)>>
          /\ (cresp'.kind # "SystemError" /\ cresp'.call_id \in DOMAIN call_sessions)
             => /\ cresp'.kind \in {"Speak", "Play"}
                /\ Len(cresp'.body) = 3
          /\ call_sessions' = call_sessions
          /\ pending' = pending]_vars

\* rendering raised for a known session and the fallback document was sent
C17_Witness ==
    /\ cresp.op = "twiml"
    /\ cresp.kind = "SystemError"
    /\ cresp.status = 200
    /\ cresp.call_id \in DOMAIN call_sessions

\* C18: when the hand-off raises, initiate_outbound_call answers 500
\* "Failed to initiate call", the session of the request stays in
\* call_sessions without twilio_call_sid, and its status is left as it was:
\* 'initiated', unless a complete_call for the session was served while the
\* request waited.
C18_HandoffFailureKeepsSession ==
    [][(TtsStep /\ cresp'.env.handoff = "raise")
       => /\ cresp'.status = 500
          /\ cresp'.kind = "CallInitiationFailed"
          /\ cresp'.call_id \in DOMAIN call_sessions'
          /\ "twilio_call_sid" \notin DOMAIN call_sessions'[cresp'.call_id]
          /\ "twilio_status" \in DOMAIN call_sessions'[cresp'.call_id]
             => "twilio_status" \in DOMAIN call_sessions[cresp'.call_id]
          /\ call_sessions'[cresp'.call_id]["status"] = call_sessions[cresp'.call_id]["status"]
          /\ ("outcome" \notin DOMAIN call_sessions[cresp'.call_id])
             => call_sessions'[cresp'.call_id]["status"] = "initiated"]_vars

\* the hand-off raised and the session is there, initiated, with its audio
C18_Witness ==
    /\ cresp.op = "outbound"
    /\ cresp.kind = "CallInitiationFailed"
    /\ cresp.env.handoff = "raise"
    /\ cresp.call_id \in DOMAIN call_sessions
    /\ call_sessions[cresp.call_id]["status"] = "initiated"
    /\ "audio_bytes" \in DOMAIN call_sessions[cresp.call_id]
    /\ "twilio_call_sid" \notin DOMAIN call_sessions[cresp.call_id]

\* C19: whether the email service answers or raises, the request goes on
\* to the speech gateway with its session in place and nothing answered
\* yet; the request then ends as the hand-off decides, with the same
\* response body as after a sent email.
C19_EmailFailureSwallowed ==
    [][/\ \A id \in CallIdInputs, ok \in BOOLEAN :
            initiate_outbound_call_email(id, ok)
            => /\ id \in DOMAIN pending'
               /\ pending'[id].pc = "tts"
               /\ pending'[id].request = pending[id].request
               /\ pending'[id].greeting = pending[id].greeting
               /\ id \in DOMAIN call_sessions'
               /\ call_sessions' = call_sessions
               /\ cresp' = cresp
       /\ (TtsStep /\ cresp'.env.email = "failed")
          => /\ cresp'.env.handoff \in HandoffOutcomes
             /\ (cresp'.status = 200) <=> (cresp'.env.handoff = "ok")
             /\ (cresp'.status = 200)
                => cresp'.body =
                     [call_id |-> cresp'.call_id, twilio_sid |-> <<"CA", cresp'.call_id>>,
                      status |-> "queued",
                      greeting |-> generate_call_greeting(pending[cresp'.call_id].request),
                      phone_number |-> pending[cresp'.call_id].request.phone_number]]_vars

\* the email service raised and the call was placed
C19_Witness ==
    /\ cresp.op = "outbound"
    /\ cresp.status = 200
    /\ cresp.env.email = "failed"
    /\ "twilio_call_sid" \in DOMAIN call_sessions[cresp.call_id]

C21_UnknownStatusIsNoOp ==
    [][(StatusStep /\ cresp'.call_id \notin DOMAIN call_sessions)
       => /\ cresp'.status = 200
          /\ cresp'.kind = "Success"
          /\ cresp'.body = [success |-> TRUE]
          /\ DOMAIN call_sessions' = DOMAIN call_sessions
          /\ call_sessions' = call_sessions
          /\ pending' = pending]_vars

\* a callback for an unknown id was answered while a session exists
C21_Witness ==
    /\ cresp.op = "status"
    /\ cresp.call_id \notin DOMAIN call_sessions
    /\ cresp.status = 200
    /\ DOMAIN call_sessions # {}

\* C22: handle_call_status answers every request with status 200; when the
\* audit step raises after the session was updated the answer is still a
\* 200, with the error reported in its body, and the update stays.
C22_CallbackNeverFails ==
    /\ [](cresp.op = "status" => cresp.status = 200)
    /\ [][(StatusStep /\ cresp'.kind = "ReportedError")
          => /\ cresp'.status = 200
             /\ cresp'.body = [success |-> FALSE]
             /\ cresp'.call_id \in DOMAIN call_sessions'
             /\ "twilio_status" \in DOMAIN call_sessions'[cresp'.call_id]
             /\ call_sessions'[cresp'.call_id]["twilio_status"] = cresp'.env[1]]_vars

\* the audit step raised after the session was updated
C22_Witness ==
    /\ cresp.op = "status"
    /\ cresp.kind = "ReportedError"
    /\ cresp.status = 200
    /\ call_sessions[cresp.call_id]["twilio_status"] = cresp.env[1]

\* the step is a complete_call request for cresp'.call_id with the outcome
\* cresp'.env.outcome[1]
CompleteStep ==
    /\ cresp'.op = "complete"
    /\ \E a \in BOOLEAN : complete_call(cresp'.call_id, cresp'.env.outcome[1], a)

\* C23: complete_call on a known session sets status to 'completed',
\* outcome to the outcome given and completed_at to the time of the
\* request, whatever they were; repeated with the same outcome it leaves
\* status and outcome as they are, with another outcome the later one stays.
C23_CompleteOverwrites ==
    [][(CompleteStep /\ cresp'.call_id \in DOMAIN call_sessions)
       => LET before == call_sessions[cresp'.call_id]
              after == call_sessions'[cresp'.call_id]
              given == cresp'.env.outcome[1]
          IN /\ after["status"] = "completed"
             /\ "outcome" \in DOMAIN after
             /\ after["outcome"] = given
             /\ "completed_at" \in DOMAIN after
             /\ after["completed_at"] = now
             /\ ("outcome" \in DOMAIN before /\ before["outcome"] = given)
                => /\ after["status"] = before["status"]
                   /\ after["outcome"] = before["outcome"]
             /\ ("outcome" \in DOMAIN before /\ before["outcome"] # given)
                => after["outcome"] # before["outcome"]]_vars

\* a completed session was completed again with another outcome
C23_Witness ==
    /\ cresp.op = "complete"
    /\ cresp.call_id \in DOMAIN call_sessions
    /\ cresp.env.prior # << >>
    /\ cresp.env.prior # cresp.env.outcome
    /\ call_sessions[cresp.call_id]["outcome"] = cresp.env.outcome[1]
    /\ call_sessions[cresp.call_id]["status"] = "completed"

AudioStep == cresp'.op = "audio" /\ get_call_audio(cresp'.call_id)

\* C25: get_call_audio answers 404 'Audio not found' exactly when the id
\* has no session or the session has no audio_bytes field; otherwise it
\* answers the stored bytes, whatever their length, the 44-byte failure
\* payload included.
C25_AudioServedWhenStored ==
    [][AudioStep
       => LET id == cresp'.call_id
              absent == \/ id \notin DOMAIN call_sessions
                        \/ "audio_bytes" \notin DOMAIN call_sessions[id]
          IN /\ (cresp'.kind = "AudioNotAvailable") <=> absent
             /\ absent => cresp'.status = 404
             /\ (~ absent)
                => /\ cresp'.status = 200
                   /\ cresp'.body.content = call_sessions[id]["audio_bytes"]
                   /\ cresp'.body.content_length = call_sessions[id]["audio_bytes"].len
             /\ call_sessions' = call_sessions]_vars

\* the 44-byte failure payload was served
C25_Witness ==
    /\ cresp.op = "audio"
    /\ cresp.status = 200
    /\ cresp.body.content = mock_audio
    /\ cresp.body.content_length < 100

\* C28: no step removes a session from call_sessions, neither a
\* complete_call, nor a failed initiate_outbound_call, nor a status callback.
C28_SessionsNeverRemoved ==
    [][DOMAIN call_sessions \subseteq DOMAIN call_sessions']_vars

\* a completed session whose hand-off had failed got a status callback
C28_Witness ==
    /\ cresp.op = "status"
    /\ cresp.call_id \in DOMAIN call_sessions
    /\ call_sessions[cresp.call_id]["status"] = "completed"
    /\ "audio_bytes" \in DOMAIN call_sessions[cresp.call_id]
    /\ "twilio_call_sid" \notin DOMAIN call_sessions[cresp.call_id]
    /\ cresp.call_id \notin DOMAIN pending

\* C26: the greeting stored in a session is the text of the greeting table
\* of its language (the English table when the language is not en, hi or
\* ta) at its purpose (the table's default entry when the purpose is none
\* of the seven of the table), a blank, and the disclosure for the
\* session's language as given.
C26_GreetingFallbacks ==
    \A id \in DOMAIN call_sessions :
       "greeting" \in DOMAIN call_sessions[id]
       => LET lang == call_sessions[id]["language"]
              purp == call_sessions[id]["purpose"]
          IN call_sessions[id]["greeting"] =
               << "greeting",
                  IF lang \in {"en", "hi", "ta"} THEN lang ELSE "en",
                  IF purp \in {"emi_reminder", "policy_renewal", "loan_offer",
                               "claim_update", "debt_recovery", "lead_generation",
                               "credit_repair"}
                  THEN purp ELSE "default",
                  " ", "disclosure", lang >>

\* an unknown language with an unknown purpose got the English default
\* greeting and the disclosure asked for in its own language
C26_Witness ==
    \E id \in DOMAIN call_sessions :
       /\ call_sessions[id]["language"] = "fr"
       /\ call_sessions[id]["purpose"] = "survey"
       /\ "greeting" \in DOMAIN call_sessions[id]
       /\ call_sessions[id]["greeting"] =
            <<"greeting", "en", "default", " ", "disclosure", "fr">>

\* the voice and locale the claim gives a language
VoicePairOf(language) ==
    IF language \in {"hi", "ta", "te", "mr", "bn"}
    THEN << "Polly.Aditi",
            IF language = "hi" THEN "hi-IN" ELSE IF language = "ta" THEN "ta-IN"
            ELSE IF language = "te" THEN "te-IN" ELSE IF language = "mr" THEN "mr-IN"
            ELSE "bn-IN" >>
    ELSE << "alice", "en-IN" >>

\* C27: for a session whose stored audio is the 44-byte failure payload,
\* get_call_audio answers those bytes and get_twiml_for_call answers a
\* document without Play whose two Say elements carry the voice and locale
\* of the session's language: Polly.Aditi with xx-IN for hi, ta, te, mr,
\* bn; alice with en-IN for en and any other language.
C27_FallbackVoiceByLanguage ==
    [][/\ (/\ TwimlStep
           /\ cresp'.kind # "SystemError"
           /\ AudioStored(call_sessions, cresp'.call_id)
           /\ call_sessions[cresp'.call_id]["audio_bytes"] = mock_audio)
          => LET pair == VoicePairOf(call_sessions[cresp'.call_id]["language"])
                 doc == cresp'.body
             IN /\ ~ HasPlay(doc)
                /\ Len(doc) = 3
                /\ doc[1].tag = "Say" /\ doc[1].voice = pair[1] /\ doc[1].language = pair[2]
                /\ doc[1].body = call_sessions[cresp'.call_id]["greeting"]
                /\ doc[3].tag = "Say" /\ doc[3].voice = pair[1] /\ doc[3].language = pair[2]
       /\ (/\ AudioStep
           /\ cresp'.call_id \in DOMAIN call_sessions
           /\ "audio_bytes" \in DOMAIN call_sessions[cresp'.call_id]
           /\ call_sessions[cresp'.call_id]["audio_bytes"] = mock_audio)
          => /\ cresp'.status = 200
             /\ cresp'.body.content = mock_audio
             /\ cresp'.body.content_length < 100]_vars

\* the speak document of a Hindi session whose synthesis had failed
C27_Witness ==
    /\ cresp.op = "twiml"
    /\ cresp.kind = "Speak"
    /\ cresp.call_id \in DOMAIN call_sessions
    /\ call_sessions[cresp.call_id]["language"] = "hi"
    /\ "audio_bytes" \in DOMAIN call_sessions[cresp.call_id]
    /\ call_sessions[cresp.call_id]["audio_bytes"] = mock_audio
    /\ cresp.body[1].voice = "Polly.Aditi"
    /\ cresp.body[1].language = "hi-IN"

C30_CreationIgnoresConsentAndLedger ==
    [][/\ (call_sessions' # call_sessions \/ pending' # pending
            \/ consent_records' # consent_records \/ cresp' # cresp)
          => UNCHANGED ledgerVars
       /\ (consent_records' # consent_records)
          => DOMAIN call_sessions' # DOMAIN call_sessions
       /\ \A id \in DOMAIN call_sessions' \ DOMAIN call_sessions :
             /\ id \in DOMAIN pending'
             /\ call_sessions'[id].status = "initiated"
             /\ consent_records' =
                  IF pending'[id].consent
                  THEN consent_records
                  ELSE consent_records \cup {call_sessions'[id].phone_number}
       /\ (cresp' # cresp /\ cresp'.op = "outbound")
          => /\ cresp'.kind \in {"Success", "CallInitiationFailed"}
             /\ (cresp'.env.handoff = "ok")
                => /\ cresp'.kind = "Success"
                   /\ cresp'.status = 200
                   /\ "twilio_call_sid" \in DOMAIN call_sessions'[cresp'.call_id]]_vars

\* a call placed for a number that is not verified and whose consent is
\* missing, the refusal recorded, with a code for the number in the ledger
C30_Witness ==
    /\ cresp.op = "outbound"
    /\ cresp.kind = "Success"
    /\ ~cresp.env.consent
    /\ cresp.body.phone_number \in consent_records
    /\ cresp.body.phone_number \notin verified_numbers
    /\ cresp.body.phone_number \in DOMAIN verification_codes
    /\ "twilio_call_sid" \in DOMAIN call_sessions[cresp.call_id]

\* C31: in every reachable state every entry of the ledger has an attempts
\* counter that is an integer from 0 to 3.
C31_AttemptsBounded ==
    \A k \in DOMAIN verification_codes :
        verification_codes[k].attempts \in 0..MaxAttempts

\* an entry that has reached three attempts and is still in the ledger
C31_Witness ==
    \E k \in DOMAIN verification_codes :
        /\ verification_codes[k].attempts = MaxAttempts
        /\ resp.op = "verify_code"
        /\ resp.kind = "CodeMismatch"
        /\ strip(resp.phone) = k

\* C32: a session's status field is 'initiated' from its creation on and
\* changes only in a complete_call request for the session, which makes it
\* 'completed'; a completed session stays completed in every later step,
\* status callbacks included, which write twilio_status and leave status
\* alone.
C32_StatusOnlyByCreateAndComplete ==
    [][/\ \A id \in DOMAIN call_sessions' \ DOMAIN call_sessions :
             call_sessions'[id]["status"] = "initiated"
       /\ \A id \in DOMAIN call_sessions :
             /\ id \in DOMAIN call_sessions'
             /\ (call_sessions[id]["status"] = "completed")
                => call_sessions'[id]["status"] = "completed"
             /\ (call_sessions'[id]["status"] # call_sessions[id]["status"])
                => /\ cresp'.op = "complete"
                   /\ cresp'.call_id = id
                   /\ call_sessions'[id]["status"] = "completed"
             /\ (cresp'.op = "status" /\ cresp' # cresp)
                => call_sessions'[id]["status"] = call_sessions[id]["status"]]_vars

\* the callback 'ringing' was processed for a completed session, which is
\* still completed and has the provider's status in its own field
C32_Witness ==
    /\ cresp.op = "status"
    /\ cresp.call_id \in DOMAIN call_sessions
    /\ cresp.env[1] = "ringing"
    /\ "outcome" \in DOMAIN call_sessions[cresp.call_id]
    /\ call_sessions[cresp.call_id]["status"] = "completed"
    /\ call_sessions[cresp.call_id]["twilio_status"] = "ringing"

\* C33: the hand-off to the provider comes after audio and greeting are
\* stored: in every reachable state a session that has a twilio_call_sid has
\* audio_bytes and a greeting, the greeting generated for its request, and
\* a session whose creation still waits for the speech gateway has no
\* twilio_call_sid; so every script request and status callback for a
\* placed call finds both.
C33_HandoffAfterAudioStored ==
    /\ \A id \in DOMAIN call_sessions :
          /\ ("twilio_call_sid" \in DOMAIN call_sessions[id])
             => /\ "audio_bytes" \in DOMAIN call_sessions[id]
                /\ "greeting" \in DOMAIN call_sessions[id]
                /\ id \notin DOMAIN pending
          /\ (id \in DOMAIN pending)
             => /\ "twilio_call_sid" \notin DOMAIN call_sessions[id]
                /\ "audio_bytes" \notin DOMAIN call_sessions[id]
    /\ (/\ cresp.op \in {"twiml", "status"}
        /\ cresp.call_id \in DOMAIN call_sessions
        /\ "twilio_call_sid" \in DOMAIN call_sessions[cresp.call_id])
       => /\ "audio_bytes" \in DOMAIN call_sessions[cresp.call_id]
          /\ "greeting" \in DOMAIN call_sessions[cresp.call_id]

\* a script request answered for a placed call, from the stored payload
C33_Witness ==
    /\ cresp.op = "twiml"
    /\ cresp.kind = "Play"
    /\ cresp.call_id \in DOMAIN call_sessions
    /\ "twilio_call_sid" \in DOMAIN call_sessions[cresp.call_id]
    /\ "twilio_status" \in DOMAIN call_sessions[cresp.call_id]
    /\ "last_status_update" \in DOMAIN call_sessions[cresp.call_id]
    /\ call_sessions[cresp.call_id]["audio_bytes"].len >= AudioThreshold

C35_PlayUrlServesStoredAudio ==
    [][/\ (TwimlStep /\ HasPlay(cresp'.body))
          => LET id == cresp'.call_id IN
             /\ id \in DOMAIN call_sessions
             /\ AudioStored(call_sessions, id)
             /\ call_sessions[id]["audio_bytes"].len >= AudioThreshold
             /\ cresp'.body[1] = Play(BaseUrl(call_sessions[id]) \o AudioRoute(id))
       /\ \A id \in DOMAIN call_sessions :
             AudioStored(call_sessions, id)
             => /\ AudioStored(call_sessions', id)
                /\ call_sessions'[id]["audio_bytes"] = call_sessions[id]["audio_bytes"]
       /\ (AudioStep /\ AudioStored(call_sessions, cresp'.call_id))
          => /\ cresp'.status = 200
             /\ cresp'.body.content = call_sessions[cresp'.call_id]["audio_bytes"]
             /\ cresp'.body.content_length = call_sessions[cresp'.call_id]["audio_bytes"].len]_vars

\* the audio of a session was served with 100 bytes, the session's hand-off
\* done
C35_Witness ==
    /\ cresp.op = "audio"
    /\ cresp.status = 200
    /\ cresp.body.content_length >= AudioThreshold
    /\ cresp.body.content.data = "sarvam"
    /\ "twilio_call_sid" \in DOMAIN call_sessions[cresp.call_id]
    /\ cresp.call_id \notin DOMAIN pending
====
